---- MODULE Spec2Model ----
(***************************************************************************)
(* Model of parse_sql_columns.py: split_queries, extract_col_values and    *)
(* tokenize_cols_values walking the token trees that sqlparse.parse hands  *)
(* over.                                                                   *)
(*                                                                         *)
(* A token is a record [cls, ttype, value, tokens]:                        *)
(*   cls    the sqlparse class of the node: "Token" for a leaf, otherwise  *)
(*          the TokenList subclass ("Statement", "Identifier",             *)
(*          "IdentifierList", "Parenthesis", "Function", ...);             *)
(*   ttype  the leaf's token type, by its sqlparse name; "None" for a      *)
(*          TokenList;                                                     *)
(*   value  the leaf's source text, a sequence of one-character strings;   *)
(*   tokens the children of a TokenList, <<>> for a leaf.                  *)
(* A parsed unit is [stmt |-> token of cls "Statement", type |-> the       *)
(* string its get_type() returns].                                         *)
(***************************************************************************)
EXTENDS Integers, Sequences, FiniteSets, TLC

VARIABLES
    items,  \* split_queries: the tuple sqlparse.parse(str_in) returned
    idx,    \* position of the list comprehension in items (1-based)
    acc,    \* the list the comprehension has built so far
    pc,     \* "running", "returned" or "raised"
    ret,    \* the list split_queries returned (<<>> until pc = "returned")
    exc     \* the exception that left split_queries ("none" until raised)

vars == <<items, idx, acc, pc, ret, exc>>

(***************************************************************************)
(* Bounds of the input space.                                              *)
(***************************************************************************)
MaxStmts == 2
MaxCols == 3
MaxVals == 3
MaxGroups == 2

(***************************************************************************)
(* Token types the code compares against (sqlparse.tokens).                *)
(***************************************************************************)
Keyword == "Token.Keyword"
Punctuation == "Token.Punctuation"
Whitespace == "Token.Text.Whitespace"
Newline == "Token.Text.Whitespace.Newline"
DML == "Token.Keyword.DML"
Name == "Token.Name"
Integer == "Token.Literal.Number.Integer"
Single == "Token.Literal.String.Single"

Leaf(tt, v) == [cls |-> "Token", ttype |-> tt, value |-> v, tokens |-> <<>>]
Group(c, toks) == [cls |-> c, ttype |-> "None", value |-> <<>>, tokens |-> toks]

RECURSIVE Flatten(_)
Flatten(ss) == IF ss = <<>> THEN <<>> ELSE Head(ss) \o Flatten(Tail(ss))

(* str(token): a leaf renders its value, a TokenList its children in order *)
RECURSIVE Str(_)
Str(tok) ==
    IF tok.cls = "Token" THEN tok.value
    ELSE Flatten([i \in 1..Len(tok.tokens) |-> Str(tok.tokens[i])])

(* isinstance(tok, sqlparse.sql.<c>); every non-leaf class is a TokenList  *)
isinstance(tok, c) ==
    IF c = "TokenList" THEN tok.cls # "Token" ELSE tok.cls = c

(* the vertical tab, character 0x0b, written as the raw character          *)
VerticalTab == ""

(* characters str.isspace() and str.strip() treat as whitespace on a byte  *)
(* string: space, \t, \n, \r, \f and the vertical tab                      *)
WhitespaceChars == {" ", "\t", "\n", "\r", "\f", VerticalTab}

(* faulty variant of isspace: the whitespace filter of line 13 left out    *)
isspace_never(s) == FALSE

(* str.isspace(): at least one character and all of them whitespace        *)
isspace(s) == Len(s) > 0 /\ \A i \in 1..Len(s) : s[i] \in WhitespaceChars

(* str.strip(): drop leading and trailing whitespace characters            *)
strip(s) ==
    LET keep == {i \in 1..Len(s) : s[i] \notin WhitespaceChars}
    IN IF keep = {} THEN <<>>
       ELSE LET lo == CHOOSE i \in keep : \A j \in keep : i <= j
                hi == CHOOSE i \in keep : \A j \in keep : j <= i
            IN SubSeq(s, lo, hi)

(* items.get_type() *)
get_type(q) == q.type

(***************************************************************************)
(* Outcomes of a call: a returned value or a raised exception.             *)
(***************************************************************************)
Return(v) == [raised |-> FALSE, exc |-> "none", value |-> v]
Raise(e) == [raised |-> TRUE, exc |-> e, value |-> <<>>]

(***************************************************************************)
(* tokenize_cols_values                                                    *)
(***************************************************************************)
(* line 43: "t_table, t_columns = [...]" unpacks exactly two elements      *)
unpack_two(lst) == Len(lst) = 2

(* faulty variant of t_table_of: the two names of line 43 swapped          *)
t_table_second(lst) == lst[2]

(* line 43: t_table is the first TokenList child of t_cols                 *)
t_table_of(lst) == lst[1]

(* line 43: t_columns is the second TokenList child of t_cols              *)
t_columns_of(lst) == lst[2]

(* line 54: a child of the column IdentifierList is a column               *)
is_column(t) == isinstance(t, "Identifier") \/ t.ttype = Keyword

(* line 68: a child of the value IdentifierList is discarded               *)
is_discarded(t) == t.ttype \in {Punctuation, Whitespace}

(* line 74: "%s.%s" % (table, col) *)
qualify(table, col) == table \o <<".">> \o col

(* faulty variant of assert_holds: the assertion of line 76 left out       *)
assert_skipped(values, columns) == TRUE

(* line 76: assert len(values) == len(columns) *)
assert_holds(values, columns) == Len(values) = Len(columns)

(* faulty variant of zip: nothing is paired when the lengths differ        *)
zip_strict(a, b) ==
    IF Len(a) = Len(b) THEN [i \in 1..Len(a) |-> <<a[i], b[i]>>] ELSE <<>>

(* zip(a, b): pairs up to the shorter argument                             *)
zip(a, b) ==
    LET n == IF Len(a) <= Len(b) THEN Len(a) ELSE Len(b)
    IN [i \in 1..n |-> <<a[i], b[i]>>]

tokenize_cols_values(t_cols, t_values_tuple) ==
    LET lst == SelectSeq(t_cols.tokens, LAMBDA tok : isinstance(tok, "TokenList"))
    IN IF ~unpack_two(lst) THEN Raise("ValueError")
       ELSE
       LET t_table == t_table_of(lst)
           t_columns == t_columns_of(lst)
           table == Str(t_table)
           col_lists == SelectSeq(t_columns.tokens,
                                  LAMBDA tok : isinstance(tok, "IdentifierList"))
       IN IF col_lists = <<>> THEN Raise("IndexError")
          ELSE
          LET t_column_identifiers == col_lists[1]
              col_toks == SelectSeq(t_column_identifiers.tokens, is_column)
              columns == [i \in 1..Len(col_toks) |-> Str(col_toks[i])]
              val_lists == SelectSeq(t_values_tuple.tokens,
                                     LAMBDA tok : isinstance(tok, "IdentifierList"))
          IN IF val_lists = <<>> THEN Raise("IndexError")
             ELSE
             LET t_values == val_lists[1]
                 val_toks == SelectSeq(t_values.tokens, LAMBDA t : ~is_discarded(t))
                 values == [i \in 1..Len(val_toks) |-> Str(val_toks[i])]
                 r == zip([i \in 1..Len(columns) |-> qualify(table, columns[i])],
                          values)
             IN IF ~assert_holds(values, columns) THEN Raise("AssertionError")
                ELSE Return(r)

(***************************************************************************)
(* extract_col_values                                                      *)
(***************************************************************************)
(* faulty variant of set_item: the assignment left out                     *)
set_item_dropped(r, k, v) == r

(* r[k] = v on the ordered dict                                            *)
set_item(r, k, v) == (k :> v) @@ r

(* faulty variant of unsupported_message: the verb left out                *)
unsupported_message_fixed(verb) == "Unsupported query type"

(* line 22: 'Unsupported query type %s' % items.get_type()                 *)
unsupported_message(verb) == "Unsupported query type " \o verb

(* faulty variant of extend: the new pairs put in front                    *)
extend_front(lst, more) == more \o lst

(* line 35: col_value_pairs += ...                                         *)
extend(lst, more) == lst \o more

(* lines 33-35: the loop over the zipped groups; the first call that       *)
(* raises ends it                                                          *)
RECURSIVE collect_pairs(_, _)
collect_pairs(pairs, col_value_pairs) ==
    IF pairs = <<>> THEN Return(col_value_pairs)
    ELSE LET one == tokenize_cols_values(Head(pairs)[1], Head(pairs)[2])
         IN IF one.raised THEN one
            ELSE collect_pairs(Tail(pairs), extend(col_value_pairs, one.value))

extract_col_values(q) ==
    LET r == [query |-> strip(Str(q.stmt))]
    IN IF get_type(q) = "UNKNOWN"
       THEN Return(set_item(r, "error", "Parsing failed"))
       ELSE IF get_type(q) # "INSERT"
       THEN Return(set_item(r, "error", unsupported_message(get_type(q))))
       ELSE
       LET t_table_and_columns_arr ==
               SelectSeq(q.stmt.tokens, LAMBDA item : isinstance(item, "Function"))
           t_values_tuple_arr ==
               SelectSeq(q.stmt.tokens,
                         LAMBDA item : ~isinstance(item, "Function")
                                       /\ isinstance(item, "Parenthesis"))
           got == collect_pairs(zip(t_table_and_columns_arr, t_values_tuple_arr), <<>>)
       IN IF got.raised THEN got
          ELSE Return(set_item(r, "columns", got.value))

(***************************************************************************)
(* split_queries: the list comprehension of line 13, one element per step. *)
(***************************************************************************)
Skip ==
    /\ pc = "running"
    /\ idx <= Len(items)
    /\ isspace(Str(items[idx].stmt))
    /\ idx' = idx + 1
    /\ UNCHANGED <<items, acc, pc, ret, exc>>

Extract ==
    /\ pc = "running"
    /\ idx <= Len(items)
    /\ ~isspace(Str(items[idx].stmt))
    /\ LET o == extract_col_values(items[idx])
       IN /\ ~o.raised
          /\ acc' = Append(acc, o.value)
    /\ idx' = idx + 1
    /\ UNCHANGED <<items, pc, ret, exc>>

(* an exception of extract_col_values leaves split_queries: nothing is     *)
(* returned, and the list built so far (acc) is dropped with the frame     *)
Abort ==
    /\ pc = "running"
    /\ idx <= Len(items)
    /\ ~isspace(Str(items[idx].stmt))
    /\ LET o == extract_col_values(items[idx])
       IN /\ o.raised
          /\ exc' = o.exc
    /\ pc' = "raised"
    /\ UNCHANGED <<items, idx, acc, ret>>

Finish ==
    /\ pc = "running"
    /\ idx > Len(items)
    /\ pc' = "returned"
    /\ ret' = acc
    /\ UNCHANGED <<items, idx, acc, exc>>

Next == Skip \/ Extract \/ Abort \/ Finish

(***************************************************************************)
(* The token trees sqlparse.parse can hand over, built from a small        *)
(* vocabulary.                                                             *)
(***************************************************************************)
Comma == Leaf(Punctuation, <<",">>)
LParen == Leaf(Punctuation, <<"(">>)
RParen == Leaf(Punctuation, <<")">>)
Semi == Leaf(Punctuation, <<";">>)
Dot == Leaf(Punctuation, <<".">>)
WS == Leaf(Whitespace, <<" ">>)
NL == Leaf(Newline, <<"\n">>)
VT == Leaf(Whitespace, <<VerticalTab>>)

Id(name) == Group("Identifier", <<Leaf(Name, name)>>)
Paren(content) == Group("Parenthesis", <<LParen>> \o content \o <<RParen>>)

RECURSIVE Join(_, _)
Join(its, sep) ==
    IF Len(its) <= 1 THEN its
    ELSE <<Head(its)>> \o sep \o Join(Tail(its), sep)

IdList(its, sep) == Group("IdentifierList", Join(its, sep))

SeqsOf(S, lo, hi) == UNION {[1..n -> S] : n \in lo..hi}

KwInto == Leaf(Keyword, <<"i", "n", "t", "o">>)
KwValues == Leaf(Keyword, <<"v", "a", "l", "u", "e", "s">>)
KwFrom == Leaf(Keyword, <<"f", "r", "o", "m">>)
KwAll == Leaf(Keyword, <<"a", "l", "l">>)
DmlInsert == Leaf(DML, <<"i", "n", "s", "e", "r", "t">>)
DmlSelect == Leaf(DML, <<"s", "e", "l", "e", "c", "t">>)
DmlUpdate == Leaf(DML, <<"u", "p", "d", "a", "t", "e">>)
Dual == Id(<<"d", "u", "a", "l">>)

(* columns: an identifier, and a keyword used as a column name             *)
ColA == Id(<<"c", "_", "a">>)
ColType == Leaf(Keyword, <<"t", "y", "p", "e">>)
ColItems == {ColA, ColType}
ColSeps == {<<Comma>>, <<Comma, WS>>}

(* values: a literal, a function call f('x y', 1), a qualified identifier  *)
Val42 == Leaf(Integer, <<"4", "2">>)
ValCall ==
    Group("Function",
          <<Id(<<"f">>),
            Paren(<<IdList(<<Leaf(Single, <<"'", "x", " ", "y", "'">>),
                             Leaf(Integer, <<"1">>)>>, <<Comma, WS>>)>>)>>)
ValSeq == Group("Identifier", <<Leaf(Name, <<"s">>), Dot, Leaf(Name, <<"n", "v">>)>>)
ValItems == {Val42, ValCall, ValSeq}
ValSeps == {<<Comma>>, <<Comma, WS>>, <<Comma, NL>>}

T1 == Id(<<"t", "1">>)
T2 == Id(<<"t", "2">>)

(* "(c1, c2, ...)" after the table name: two or more columns are grouped   *)
(* into an IdentifierList                                                  *)
ListedColumns ==
    {Paren(<<IdList(cs, sep)>>) : cs \in SeqsOf(ColItems, 2, MaxCols), sep \in ColSeps}
(* "(c)": a single column is not grouped into an IdentifierList            *)
BareColumns == {Paren(<<c>>) : c \in ColItems}

(* "t1(...)": a Function of the table Identifier and the parenthesis       *)
TargetGroups ==
    {Group("Function", <<T1, w>>) : w \in ListedColumns \cup BareColumns}

ListedValues ==
    {Paren(<<IdList(vs, sep)>>) : vs \in SeqsOf(ValItems, 2, MaxVals), sep \in ValSeps}
BareValues == {Paren(<<v>>) : v \in ValItems}
(* "(select v1, v2 from dual)" *)
SubqueryValues ==
    {Paren(<<DmlSelect, WS, IdList(vs, <<Comma, WS>>), WS, KwFrom, WS, Dual>>) :
        vs \in SeqsOf(ValItems, 2, 2)}

ValueGroups == ListedValues \cup BareValues \cup SubqueryValues

(* the top-level children of an insert statement: "into <target> values    *)
(* <values>" once per group, groups without a partner at the end           *)
RECURSIVE InsertBody(_, _)
InsertBody(targets, values) ==
    IF targets = <<>> /\ values = <<>> THEN <<>>
    ELSE (IF targets = <<>> THEN <<>> ELSE <<KwInto, WS, Head(targets), WS>>)
         \o (IF values = <<>> THEN <<>> ELSE <<KwValues, Head(values), NL>>)
         \o InsertBody(IF targets = <<>> THEN <<>> ELSE Tail(targets),
                       IF values = <<>> THEN <<>> ELSE Tail(values))

InsertUnit(lead, targets, values) ==
    [stmt |-> Group("Statement",
                    lead \o <<DmlInsert, WS>>
                    \o (IF Len(targets) > 1 THEN <<KwAll, NL>> ELSE <<>>)
                    \o InsertBody(targets, values) \o <<Semi>>),
     type |-> "INSERT"]

SingleTargetUnits ==
    {InsertUnit(<<>>, <<t>>, <<v>>) : t \in TargetGroups, v \in ValueGroups}

TargetOk == Group("Function", <<T1, Paren(<<IdList(<<ColA, ColType>>, <<Comma, WS>>)>>)>>)
ValuesOk == Paren(<<IdList(<<Val42, ValCall>>, <<Comma, WS>>)>>)
ValuesThree == Paren(<<IdList(<<Val42, Val42, ValSeq>>, <<Comma>>)>>)

(* groups of "insert all": two tables with the same column names           *)
AllTargets ==
    {TargetOk,
     Group("Function", <<T2, Paren(<<IdList(<<ColA, ColType>>, <<Comma, WS>>)>>)>>),
     Group("Function", <<T2, Paren(<<IdList(<<ColType, ColA, ColA>>, <<Comma>>)>>)>>)}
AllValues ==
    {ValuesOk, Paren(<<IdList(<<ValSeq, Val42>>, <<Comma>>)>>), ValuesThree}

MultiTargetUnits ==
    {InsertUnit(<<>>, ts, vs) : ts \in SeqsOf(AllTargets, 0, MaxGroups),
                                vs \in SeqsOf(AllValues, 0, MaxGroups)}

WhitespaceUnit == [stmt |-> Group("Statement", <<NL, WS, VT>>), type |-> "UNKNOWN"]
UnknownUnit ==
    [stmt |-> Group("Statement", <<VT, NL, Id(<<"r", "e", "i", "t">>), WS, VT>>),
     type |-> "UNKNOWN"]
SelectUnit ==
    [stmt |-> Group("Statement",
                    <<WS, DmlSelect, WS, Val42, WS, KwFrom, WS, Dual, Semi>>),
     type |-> "SELECT"]
(* a non-insert statement holding groups extraction could not handle       *)
UpdateUnit ==
    [stmt |-> Group("Statement",
                    <<DmlUpdate, WS, Group("Function", <<T1, Paren(<<>>)>>), WS,
                      Paren(<<>>), Semi, NL>>),
     type |-> "UPDATE"]

(* the units of inputs with several statements                             *)
MixedUnits ==
    {WhitespaceUnit, UnknownUnit, SelectUnit, UpdateUnit,
     InsertUnit(<<NL>>, <<TargetOk>>, <<ValuesOk>>),
     InsertUnit(<<>>, <<TargetOk>>, <<ValuesThree>>),
     InsertUnit(<<>>, <<Group("Function", <<T1, Paren(<<ColA>>)>>)>>, <<Paren(<<Val42>>)>>)}

(* what sqlparse.parse returns *)
Inputs ==
    SeqsOf(MixedUnits, 0, MaxStmts)
    \cup {<<u>> : u \in SingleTargetUnits \cup MultiTargetUnits}

Init ==
    /\ items \in Inputs
    /\ idx = 1
    /\ acc = <<>>
    /\ pc = "running"
    /\ ret = <<>>
    /\ exc = "none"

Spec == Init /\ [][Next]_vars

(***************************************************************************)
(* Vocabulary of the properties, stated on the token trees and not through *)
(* the operators above.                                                    *)
(***************************************************************************)
WhitespaceOnly(s) == s # <<>> /\ {s[i] : i \in DOMAIN s} \subseteq WhitespaceChars

(* the parsed units that are not whitespace-only, in source order          *)
Units == SelectSeq(items, LAMBDA q : ~WhitespaceOnly(Str(q.stmt)))

RECURSIVE DropLeading(_)
DropLeading(s) ==
    IF s # <<>> /\ Head(s) \in WhitespaceChars THEN DropLeading(Tail(s)) ELSE s
Reverse(s) == [i \in 1..Len(s) |-> s[Len(s) + 1 - i]]
Trimmed(s) == Reverse(DropLeading(Reverse(DropLeading(s))))

HasColumns(r) == "columns" \in DOMAIN r
HasError(r) == "error" \in DOMAIN r
Terminated == pc # "running"

(***************************************************************************)
(* C1: every record extract_col_values produced, and so every element of   *)
(* the list split_queries returns, has the key 'query' and exactly one of  *)
(* 'columns' and 'error'.                                                  *)
(***************************************************************************)
C1_ExactlyOneOfColumnsError ==
    \A rs \in {acc, ret} : \A i \in 1..Len(rs) :
        /\ "query" \in DOMAIN rs[i]
        /\ HasColumns(rs[i]) # HasError(rs[i])
        /\ DOMAIN rs[i] \subseteq {"query", "columns", "error"}

C1_Witness ==
    /\ pc = "returned"
    /\ \E i, j \in 1..Len(ret) : HasColumns(ret[i]) /\ HasError(ret[j])

(***************************************************************************)
(* C2 as stated: whatever the statements are, split_queries returns one    *)
(* record per unit that is not whitespace-only, in source order, its       *)
(* 'query' the trimmed text of the unit.                                   *)
(***************************************************************************)
C2_Original ==
    Terminated =>
        /\ pc = "returned"
        /\ Len(ret) = Len(Units)
        /\ \A i \in 1..Len(ret) : ret[i].query = Trimmed(Str(Units[i].stmt))

(***************************************************************************)
(* C2 amended: split_queries either returns one record per unit that is    *)
(* not whitespace-only, in source order, its 'query' the trimmed text of   *)
(* the unit, or it raises while extracting from an INSERT unit that is not *)
(* whitespace-only and returns nothing; records are built in source order  *)
(* up to there.                                                            *)
(***************************************************************************)
C2_OrderPreservedUnlessRaised ==
    /\ Len(acc) <= Len(Units)
    /\ \A i \in 1..Len(acc) : acc[i].query = Trimmed(Str(Units[i].stmt))
    /\ pc = "returned" => ret = acc /\ Len(ret) = Len(Units)
    /\ pc = "raised" =>
          /\ ret = <<>>
          /\ Units[Len(acc) + 1] = items[idx]
          /\ items[idx].type = "INSERT"

C2_Witness ==
    /\ pc = "returned"
    /\ Len(items) = 2
    /\ WhitespaceOnly(Str(items[1].stmt))
    /\ Len(ret) = 1
    /\ HasColumns(ret[1])
    /\ ret[1].query # Str(items[2].stmt)

(***************************************************************************)
(* C5: a unit whose type is not INSERT never has extraction attempted and  *)
(* yields an error record without 'columns': "Parsing failed" for type     *)
(* UNKNOWN, "Unsupported query type <VERB>" for every other type.          *)
(***************************************************************************)
C5_NonInsertIsError ==
    /\ pc = "raised" => items[idx].type = "INSERT"
    /\ \A i \in 1..Len(acc) :
          LET u == Units[i]
          IN /\ u.type = "UNKNOWN" =>
                   /\ DOMAIN acc[i] = {"query", "error"}
                   /\ acc[i].error = "Parsing failed"
             /\ u.type \notin {"UNKNOWN", "INSERT"} =>
                   /\ DOMAIN acc[i] = {"query", "error"}
                   /\ acc[i].error = "Unsupported query type " \o u.type

C5_Witness ==
    /\ pc = "returned"
    /\ Len(ret) = 2
    /\ ret[1].error = "Parsing failed"
    /\ ret[2].error = "Unsupported query type UPDATE"
    /\ \E t \in 1..Len(items[2].stmt.tokens) : items[2].stmt.tokens[t].cls = "Function"

(***************************************************************************)
(* Vocabulary of the extraction properties.                                *)
(***************************************************************************)
Children(t, c) == SelectSeq(t.tokens, LAMBDA x : x.cls = c)
Composites(t) == SelectSeq(t.tokens, LAMBDA x : x.cls # "Token")
Texts(ts) == [i \in 1..Len(ts) |-> Str(ts[i])]
Min(a, b) == IF a <= b THEN a ELSE b

(* top-level FunctionCall children and ParenthesisGroup children           *)
TargetsOf(u) == Children(u.stmt, "Function")
ValueGroupsOf(u) == Children(u.stmt, "Parenthesis")
PairCount(u) == Min(Len(TargetsOf(u)), Len(ValueGroupsOf(u)))

IsColumnNode(x) == x.cls = "Identifier" \/ (x.cls = "Token" /\ x.ttype = Keyword)
(* a leaf of terminal kind Punctuation or Whitespace; a newline is a       *)
(* whitespace token (its type is a subtype of Token.Text.Whitespace)       *)
IsSeparatorLeaf(x) ==
    x.cls = "Token" /\ x.ttype \in {Punctuation, Whitespace, Newline}

(* a target group as the tokenizer emits it: the table Identifier, then    *)
(* the parenthesised columns                                               *)
TableThenColumns(t) ==
    /\ Len(Composites(t)) = 2
    /\ Composites(t)[1].cls = "Identifier"
    /\ Composites(t)[2].cls = "Parenthesis"

(* the columns a parenthesis declares: those of its IdentifierList, or,    *)
(* without one, those standing directly between the parentheses            *)
DeclaredIn(w) ==
    LET ls == Children(w, "IdentifierList")
    IN Texts(SelectSeq(IF ls # <<>> THEN ls[1].tokens ELSE w.tokens, IsColumnNode))

(* the values a value group supplies, separators left out                  *)
SuppliedIn(v) ==
    LET ls == Children(v, "IdentifierList")
    IN Texts(SelectSeq(IF ls # <<>> THEN ls[1].tokens ELSE v.tokens,
                       LAMBDA x : ~IsSeparatorLeaf(x)))

PairsOf(table, cols, vals) ==
    [k \in 1..Len(cols) |-> <<Str(table) \o <<".">> \o cols[k], vals[k]>>]

SingleTarget(u) ==
    u.type = "INSERT" /\ Len(TargetsOf(u)) = 1 /\ Len(ValueGroupsOf(u)) = 1

(***************************************************************************)
(* C3: a single-target INSERT whose target group declares N >= 1 columns   *)
(* (and whose value group supplies N values) yields exactly the N pairs    *)
(* ("<table>.<i-th column>", <i-th value>), in declared order.             *)
(***************************************************************************)
C3_Case(u) ==
    /\ SingleTarget(u)
    /\ TableThenColumns(TargetsOf(u)[1])
    /\ Len(DeclaredIn(Composites(TargetsOf(u)[1])[2])) >= 1
    /\ Len(SuppliedIn(ValueGroupsOf(u)[1]))
          = Len(DeclaredIn(Composites(TargetsOf(u)[1])[2]))

C3_SingleTargetNPairs ==
    /\ pc = "raised" => ~C3_Case(items[idx])
    /\ \A i \in 1..Len(acc) :
          C3_Case(Units[i]) =>
              /\ HasColumns(acc[i])
              /\ acc[i].columns =
                    LET t == TargetsOf(Units[i])[1]
                    IN PairsOf(Composites(t)[1], DeclaredIn(Composites(t)[2]),
                               SuppliedIn(ValueGroupsOf(Units[i])[1]))

(***************************************************************************)
(* What tokenize_cols_values does with a pair of groups, restated on the   *)
(* tree: which failure it ends in, if any, and what it extracts.           *)
(***************************************************************************)
ColumnListOf(t) == Children(Composites(t)[2], "IdentifierList")
ExtractedColumns(t) == Texts(SelectSeq(ColumnListOf(t)[1].tokens, IsColumnNode))
ExtractedValues(v) ==
    Texts(SelectSeq(Children(v, "IdentifierList")[1].tokens,
                    LAMBDA x : x.ttype # Punctuation /\ x.ttype # Whitespace))

FailureOf(t, v) ==
    IF Len(Composites(t)) # 2 THEN "ValueError"
    ELSE IF ColumnListOf(t) = <<>> \/ Children(v, "IdentifierList") = <<>>
    THEN "IndexError"
    ELSE IF Len(ExtractedColumns(t)) # Len(ExtractedValues(v))
    THEN "AssertionError"
    ELSE "none"

FailingPairs(u) ==
    {j \in 1..PairCount(u) : FailureOf(TargetsOf(u)[j], ValueGroupsOf(u)[j]) # "none"}
FirstFailure(u) ==
    IF FailingPairs(u) = {} THEN "none"
    ELSE LET j == CHOOSE j \in FailingPairs(u) : \A k \in FailingPairs(u) : j <= k
         IN FailureOf(TargetsOf(u)[j], ValueGroupsOf(u)[j])

(***************************************************************************)
(* C4: for an INSERT ALL statement with k >= 2 target/value groups the     *)
(* record's 'columns' is the concatenation, in group order, of each        *)
(* group's pairs, each group's columns in their order and qualified by     *)
(* that group's table; equal column names of different tables are kept.    *)
(***************************************************************************)
C4_Case(u) ==
    /\ u.type = "INSERT"
    /\ Len(TargetsOf(u)) >= 2
    /\ Len(TargetsOf(u)) = Len(ValueGroupsOf(u))
    /\ \A j \in 1..Len(TargetsOf(u)) : TableThenColumns(TargetsOf(u)[j])

C4_InsertAllConcatenates ==
    \A i \in 1..Len(acc) :
        C4_Case(Units[i]) =>
            acc[i].columns =
                Flatten([j \in 1..Len(TargetsOf(Units[i])) |->
                    LET t == TargetsOf(Units[i])[j]
                    IN PairsOf(Children(t, "Identifier")[1],
                               DeclaredIn(Children(t, "Parenthesis")[1]),
                               SuppliedIn(ValueGroupsOf(Units[i])[j]))])

C4_Witness ==
    /\ pc = "returned"
    /\ Len(ret) = 1
    /\ C4_Case(Units[1])
    /\ Len(ret[1].columns) = 4
    /\ ret[1].columns[1][1] = <<"t", "1", ".", "c", "_", "a">>
    /\ ret[1].columns[3][1] = <<"t", "2", ".", "c", "_", "a">>

(***************************************************************************)
(* C6: if for some target/value pair of some INSERT statement of the input *)
(* the number of extracted columns differs from the number of extracted    *)
(* values, no list is returned: extraction of that pair fails with the     *)
(* assertion, no record holds truncated pairs, and the records of earlier  *)
(* statements are not reported either.                                     *)
(***************************************************************************)
MismatchIn(u) ==
    /\ u.type = "INSERT"
    /\ \E j \in 1..PairCount(u) :
          FailureOf(TargetsOf(u)[j], ValueGroupsOf(u)[j]) = "AssertionError"

C6_MismatchAbortsRun ==
    /\ (\E i \in 1..Len(Units) : MismatchIn(Units[i])) => pc # "returned" /\ ret = <<>>
    /\ \A i \in 1..Len(acc) : ~MismatchIn(Units[i])
    /\ (pc = "raised" /\ FirstFailure(items[idx]) = "AssertionError") =>
          exc = "AssertionError"

C6_Witness ==
    /\ pc = "raised"
    /\ exc = "AssertionError"
    /\ idx = 2
    /\ Len(acc) = 1
    /\ HasColumns(acc[1])
    /\ ret = <<>>

(***************************************************************************)
(* C7: the only failure of a run is the column/value count mismatch: a run *)
(* that does not return a list has failed with the assertion of line 76,   *)
(* and nothing else (such as a column wrapper or a value group without an  *)
(* IdentifierList child) makes it fail.                                    *)
(***************************************************************************)
C7_OnlyMismatchFails ==
    /\ pc = "raised" => exc = "AssertionError"
    /\ pc = "raised" => FirstFailure(items[idx]) = "AssertionError"

(***************************************************************************)
(* C8: the table name that qualifies the columns is the exact source text  *)
(* of the target group's Identifier child, and the columns are those of    *)
(* the IdentifierList in its other composite child, the parenthesis.       *)
(***************************************************************************)
C8_Case(u) ==
    /\ SingleTarget(u)
    /\ Len(Children(TargetsOf(u)[1], "Identifier")) = 1
    /\ Len(Children(TargetsOf(u)[1], "Parenthesis")) = 1
    /\ Children(Children(TargetsOf(u)[1], "Parenthesis")[1], "IdentifierList") # <<>>
    /\ Children(ValueGroupsOf(u)[1], "IdentifierList") # <<>>
    /\ Len(DeclaredIn(Children(TargetsOf(u)[1], "Parenthesis")[1]))
          = Len(ExtractedValues(ValueGroupsOf(u)[1]))
(***************************************************************************)
C9_Case(u) ==
    /\ SingleTarget(u)
    /\ TableThenColumns(TargetsOf(u)[1])
    /\ ColumnListOf(TargetsOf(u)[1]) # <<>>
    /\ Children(ValueGroupsOf(u)[1], "IdentifierList") # <<>>
    /\ Len(SuppliedIn(ValueGroupsOf(u)[1])) = Len(ExtractedColumns(TargetsOf(u)[1]))

C9_ValuesAreNonSeparatorChildren ==
    /\ pc = "raised" => ~C9_Case(items[idx])
    /\ \A i \in 1..Len(acc) :
          C9_Case(Units[i]) =>
              [k \in 1..Len(acc[i].columns) |-> acc[i].columns[k][2]]
                  = SuppliedIn(ValueGroupsOf(Units[i])[1])

(***************************************************************************)
(* C10: target group i is paired with value group i for exactly            *)
(* i <= min(#target groups, #value groups): groups beyond that add no      *)
(* pairs and raise nothing, and without target groups or without value     *)
(* groups the record has an empty 'columns'.                               *)
(***************************************************************************)
GroupPairs(t, v) ==
    PairsOf(Composites(t)[1], ExtractedColumns(t), ExtractedValues(v))

C10_PositionalPairing ==
    /\ \A i \in 1..Len(acc) :
          Units[i].type = "INSERT" =>
              /\ HasColumns(acc[i])
              /\ acc[i].columns =
                    Flatten([j \in 1..PairCount(Units[i]) |->
                        GroupPairs(TargetsOf(Units[i])[j], ValueGroupsOf(Units[i])[j])])
              /\ PairCount(Units[i]) = 0 => acc[i].columns = <<>>
    /\ pc = "raised" =>
          \E j \in 1..PairCount(items[idx]) :
              FailureOf(TargetsOf(items[idx])[j], ValueGroupsOf(items[idx])[j]) # "none"

C10_Witness ==
    /\ pc = "returned"
    /\ Len(ret) = 1
    /\ Len(TargetsOf(items[1])) = 2
    /\ Len(ValueGroupsOf(items[1])) = 1
    /\ FailureOf(TargetsOf(items[1])[2], ValueGroupsOf(items[1])[1]) # "none"
    /\ Len(ret[1].columns) = 2

====
